---------------------------- MODULE Spec2Model ----------------------------
(***************************************************************************)
(* A model of gbrowse (src/src/main.rs): the Gbrowse session (address bar, *)
(* history, display state, in-flight flag, the mpsc channel), the update   *)
(* handler with its buttons and link dispatch, and the worker threads that *)
(* run make_request and send its result over the channel.                  *)
(*                                                                         *)
(* Address texts are modelled structurally: a text is a record of scheme,  *)
(* host and path; a path is a record of a leading-separator flag, a        *)
(* sequence of segments (stem, extension) and a trailing-separator flag.   *)
(***************************************************************************)
EXTENDS Naturals, Sequences, FiniteSets

(***************************************************************************)
(* Bounds of the model.                                                    *)
(***************************************************************************)
\* threads spawned by change_site in one run
MaxFetches == 3
\* Redirect responses the transport gives to one make_request
MaxRedirects == 2
\* segments of an address path (relative links only grow paths)
MaxPathLen == 2

VARIABLES
    url,        \* Gbrowse.url: the address-bar text
    sites,      \* Gbrowse.sites: the history
    content,    \* Gbrowse.content: Option<Vec<GemtextNode>>
    error,      \* Gbrowse.error: Option<String>
    loading,    \* Gbrowse.loading
    chan,       \* the queue of the channel (tx, rx) made in Gbrowse::new
    threads,    \* the threads spawned by change_site, in spawn order
    polled,     \* ids of the threads whose result try_recv has returned
    open_url,   \* the frame's output: the target given to OpenUrl::new_tab
    alive       \* FALSE once the thread running update has panicked

vars == <<url, sites, content, error, loading, chan, threads, polled, open_url, alive>>

(***************************************************************************)
(* Option<T>.                                                              *)
(***************************************************************************)
None == <<>>
Some(x) == <<x>>
IsSome(o) == o # None
Unwrap(o) == o[1]

(***************************************************************************)
(* Texts and paths.                                                        *)
(***************************************************************************)
Seg(stem, ext) == [stem |-> stem, ext |-> ext]
MkPath(abs, segs, dir) == [abs |-> abs, segs |-> segs, dir |-> dir]
Txt(scheme, host, path) == [scheme |-> scheme, host |-> host, path |-> path]

NoPath == MkPath(FALSE, <<>>, FALSE)

DEFAULT_STARTING_PAGE == Txt("gemini", "gemini.circumlunar.space", NoPath)

\* gemini://example.org/docs/page.gmi
DocPage == Txt("gemini", "example.org", MkPath(TRUE, <<Seg("docs", ""), Seg("page", "gmi")>>, FALSE))
\* gemini://example.org/docs/
DirPage == Txt("gemini", "example.org", MkPath(TRUE, <<Seg("docs", "")>>, TRUE))
\* gemini://example.org/new.gmi
NewPage == Txt("gemini", "example.org", MkPath(TRUE, <<Seg("new", "gmi")>>, FALSE))
\* https://example.com/
WebPage == Txt("https", "example.com", MkPath(TRUE, <<>>, FALSE))
\* sibling.gmi
RelDoc == Txt("", "", MkPath(FALSE, <<Seg("sibling", "gmi")>>, FALSE))
\* sub/
RelDir == Txt("", "", MkPath(FALSE, <<Seg("sub", "")>>, TRUE))
\* /root.gmi
AbsDoc == Txt("", "", MkPath(TRUE, <<Seg("root", "gmi")>>, FALSE))
\* not an address
Garbage == Txt("", "", MkPath(FALSE, <<Seg("nowhere", "")>>, FALSE))


(***************************************************************************)
(* std::path::PathBuf, as used by the relative-link branch of update.      *)
(***************************************************************************)
Front(s) == SubSeq(s, 1, Len(s) - 1)
Last(s) == s[Len(s)]

\* PathBuf::pop: truncates to the parent; no effect when there is none
PathPop(p) == IF p.segs = <<>> THEN p ELSE MkPath(p.abs, Front(p.segs), FALSE)

\* PathBuf::push: an absolute argument replaces the path
PathPush(p, a) ==
    IF a.abs THEN a
    ELSE IF p = NoPath THEN a
    ELSE MkPath(p.abs, p.segs \o a.segs, a.dir)

\* Path::extension: the extension of the final component
PathExtension(p) ==
    IF p.segs = <<>> \/ Last(p.segs).ext = "" THEN None ELSE Some(Last(p.segs).ext)

\* Path::is_absolute
PathIsAbsolute(p) == p.abs

(***************************************************************************)
(* The two URL parsers: gmi::url::Url::try_from (the native resolver) and  *)
(* url::Url::parse (used by the link dispatch).                            *)
(***************************************************************************)
\* gmi's Url: the native scheme only; the parsed value drops the scheme
UrlTryFrom(text) ==
    IF text.scheme = "gemini"
    THEN Some([path |-> text.path, authority |-> text.host])
    ELSE None

\* url::Url::parse: Ok for any scheme-qualified text, RelativeUrlWithoutBase otherwise
UrlParse(text) == IF text.scheme = "" THEN None ELSE Some(text)

\* url::Url::set_path on a URL with a host: the new path starts at the root
UrlSetPath(u, p) == [u EXCEPT !.path = MkPath(TRUE, p.segs, p.dir)]

(***************************************************************************)
(* Payloads, gemtext and the transport's responses.                        *)
(***************************************************************************)
Line(kind, target, text) == [text |-> text, kind |-> kind, target |-> target]
Payload(utf8, lines) == [utf8 |-> utf8, lines |-> lines]

\* a page with a heading and a relative link
HomeDoc == Payload(TRUE, << Line("#", None, "Hello"),
                            Line("=>", Some(RelDoc), "") >>)
\* a page with every kind of link target
LinksDoc == Payload(TRUE, << Line("=>", Some(RelDoc), ""),
                             Line("=>", Some(RelDir), ""),
                             Line("=>", Some(AbsDoc), ""),
                             Line("=>", Some(NewPage), ""),
                             Line("=>", Some(WebPage), "") >>)
PlainDoc == Payload(TRUE, << Line("#", None, "Hello") >>)
BadBytes == Payload(FALSE, <<>>)
NoData == Payload(TRUE, <<>>)

Payloads == {HomeDoc, PlainDoc, BadBytes}

\* gemtext::parse_gemtext, line by line
GemtextNode(line) ==
    IF line.kind = "=>" THEN [url |-> line.target, text |-> line.text, node |-> "Link"]
    ELSE IF line.kind = "#" THEN [url |-> None, text |-> line.text, node |-> "Heading"]
    ELSE [url |-> None, text |-> line.text, node |-> "Text"]

parse_gemtext(lines) == [i \in 1..Len(lines) |-> GemtextNode(lines[i])]

\* str::from_utf8
from_utf8(data) == IF data.utf8 THEN Some(data.lines) ELSE None

Response(ok, status, meta, data) == [data |-> data, ok |-> ok, status |-> status, meta |-> meta]
NoMeta == Txt("", "", NoPath)

RedirectMetas == {NewPage, DocPage, Garbage}

Responses ==
    {Response(FALSE, "", NoMeta, NoData)}
    \cup {Response(TRUE, "Redirect", m, NoData) : m \in RedirectMetas}
    \cup {Response(TRUE, "Success", NoMeta, d) : d \in Payloads}
    \cup {Response(TRUE, "Other", NoMeta, NoData)}

\* Result<Vec<GemtextNode>, String>
Ok(nodes) == [ok |-> TRUE, nodes |-> nodes, err |-> ""]
Err(msg) == [ok |-> FALSE, nodes |-> <<>>, err |-> msg]

(***************************************************************************)
(* The Gbrowse struct as a value, so that handlers compose as in the code. *)
(***************************************************************************)
Self ==
    [url |-> url, sites |-> sites, content |-> content, error |-> error,
     loading |-> loading, rx |-> chan, threads |-> threads, polled |-> polled,
     open_url |-> open_url, alive |-> alive]

\* a thread right after thread::spawn: about to enter make_request with its url
Spawned(u) ==
    [url |-> Some(u), pc |-> "request", requests |-> <<>>, responses |-> <<>>, ret |-> None]

\* a thread that has ended: its locals are gone
Ended(pc) ==
    [url |-> None, pc |-> pc, requests |-> <<>>, responses |-> <<>>, ret |-> None]

\* Gbrowse::new
Init ==
    /\ url = DEFAULT_STARTING_PAGE
    /\ sites = <<>>
    /\ content = None
    /\ error = None
    /\ loading = FALSE
    /\ chan = <<>>
    /\ threads = <<>>
    /\ polled = <<>>
    /\ open_url = None
    /\ alive = TRUE

\* change_site without the moving_back test: every navigation is pushed
change_site_always_push(g, text, moving_back) ==
    LET g1 == [g EXCEPT !.error = None, !.content = None, !.url = text]
        url_structured == UrlTryFrom(text)
    IN  IF url_structured = None
        THEN [g1 EXCEPT !.error = Some("Incorrectly formatted url")]
        ELSE [g1 EXCEPT
                !.sites = Append(@, g1.url),
                !.loading = TRUE,
                !.threads = Append(@, Spawned(Unwrap(url_structured)))]

\* change_site with the push and the flag moved above the address check
change_site_push_first(g, text, moving_back) ==
    LET g1 == [g EXCEPT !.error = None, !.content = None, !.url = text,
                        !.sites = IF moving_back THEN @ ELSE Append(@, text),
                        !.loading = TRUE]
        url_structured == UrlTryFrom(text)
    IN  IF url_structured = None
        THEN [g1 EXCEPT !.error = Some("Incorrectly formatted url")]
        ELSE [g1 EXCEPT !.threads = Append(@, Spawned(Unwrap(url_structured)))]

\* change_site with a history that skips repeats: an address equal to the last
\* entry is not pushed again
change_site_dedup(g, text, moving_back) ==
    LET g1 == [g EXCEPT !.error = None, !.content = None, !.url = text]
        url_structured == UrlTryFrom(text)
    IN  IF url_structured = None
        THEN [g1 EXCEPT !.error = Some("Incorrectly formatted url")]
        ELSE [g1 EXCEPT
                !.sites = IF moving_back \/ (@ # <<>> /\ Last(@) = g1.url)
                          THEN @ ELSE Append(@, g1.url),
                !.loading = TRUE,
                !.threads = Append(@, Spawned(Unwrap(url_structured)))]

\* Gbrowse::change_site
change_site(g, text, moving_back) ==
    LET g1 == [g EXCEPT !.error = None, !.content = None, !.url = text]
        url_structured == UrlTryFrom(text)
    IN  IF url_structured = None
        THEN [g1 EXCEPT !.error = Some("Incorrectly formatted url")]
        ELSE [g1 EXCEPT
                !.sites = IF moving_back THEN @ ELSE Append(@, g1.url),
                !.loading = TRUE,
                !.threads = Append(@, Spawned(Unwrap(url_structured)))]

\* Sender handles of the channel: Gbrowse.tx and the clone each running thread owns
Senders(g) ==
    1 + Cardinality({i \in DOMAIN g.threads : g.threads[i].pc \notin {"done", "panicked"}})

\* try_recv that reads the head of the queue and leaves it there
try_recv_peek(g) ==
    IF g.rx # <<>> THEN [ok |-> TRUE, msg |-> Some(Head(g.rx)), rx |-> g.rx, err |-> ""]
    ELSE IF Senders(g) = 0 THEN [ok |-> FALSE, msg |-> None, rx |-> g.rx, err |-> "Disconnected"]
    ELSE [ok |-> FALSE, msg |-> None, rx |-> g.rx, err |-> "Empty"]

\* Receiver::try_recv
try_recv(g) ==
    IF g.rx # <<>> THEN [ok |-> TRUE, msg |-> Some(Head(g.rx)), rx |-> Tail(g.rx), err |-> ""]
    ELSE IF Senders(g) = 0 THEN [ok |-> FALSE, msg |-> None, rx |-> g.rx, err |-> "Disconnected"]
    ELSE [ok |-> FALSE, msg |-> None, rx |-> g.rx, err |-> "Empty"]

\* get_content with a generation check: the outcome of a fetch that is not the
\* most recently started one is taken off the queue and dropped
get_content_latest_only(g) ==
    LET r == try_recv(g)
    IN  IF r.ok
        THEN LET msg == Unwrap(r.msg)
                 g1 == [g EXCEPT !.rx = r.rx, !.polled = Append(@, msg.from)]
             IN  IF msg.from # Len(g.threads)
                 THEN [g |-> [g EXCEPT !.rx = r.rx], ret |-> None]
                 ELSE IF msg.val.ok
                 THEN [g |-> [g1 EXCEPT !.loading = FALSE], ret |-> Some(msg.val.nodes)]
                 ELSE [g |-> [g1 EXCEPT !.error = Some(msg.val.err), !.loading = FALSE],
                       ret |-> None]
        ELSE IF r.err # "Empty"
             THEN [g |-> [g EXCEPT !.error = Some("Error Recieving From Other Thread"),
                                   !.loading = FALSE],
                   ret |-> None]
             ELSE [g |-> g, ret |-> None]

\* Gbrowse::get_content: the session after the call, and the value returned
get_content(g) ==
    LET r == try_recv(g)
    IN  IF r.ok
        THEN LET msg == Unwrap(r.msg)
                 g1 == [g EXCEPT !.rx = r.rx, !.polled = Append(@, msg.from)]
             IN  IF msg.val.ok
                 THEN [g |-> [g1 EXCEPT !.loading = FALSE], ret |-> Some(msg.val.nodes)]
                 ELSE [g |-> [g1 EXCEPT !.error = Some(msg.val.err), !.loading = FALSE],
                       ret |-> None]
        ELSE IF r.err # "Empty"
             THEN [g |-> [g EXCEPT !.error = Some("Error Recieving From Other Thread"),
                                   !.loading = FALSE],
                   ret |-> None]
             ELSE [g |-> g, ret |-> None]

\* update, lines 132-135: poll, and display what arrived (the frame's platform
\* output starts empty)
poll(g) ==
    LET p == get_content([g EXCEPT !.open_url = None])
    IN  IF IsSome(p.ret) THEN [p.g EXCEPT !.content = p.ret] ELSE p.g

\* the relative branch without the is_absolute test: a rooted target is appended
\* to the current path like any other
relative_url_append(cur, target) ==
    LET new_url == Unwrap(UrlParse(cur))
        new_path == new_url.path
        addition == [target.path EXCEPT !.abs = FALSE]
        path == PathPush(IF PathExtension(addition) = Some("gmi")
                         THEN PathPop(new_path)
                         ELSE new_path,
                         addition)
    IN  UrlSetPath(new_url, path)

\* update, lines 200-220: a relative link target against the address-bar text
relative_url(cur, target) ==
    LET new_url == Unwrap(UrlParse(cur))
        new_path == new_url.path
        addition == target.path
        path == IF PathIsAbsolute(addition)
                THEN addition
                ELSE PathPush(IF PathExtension(addition) = Some("gmi")
                              THEN PathPop(new_path)
                              ELSE new_path,
                              addition)
    IN  UrlSetPath(new_url, path)

\* the link dispatch without the test of the native scheme: every target that is
\* not a web link is resolved against the address bar
link_clicked_all_relative(g, target) ==
    LET parsed_url == UrlParse(target)
    IN  IF IsSome(parsed_url) /\ Unwrap(parsed_url).scheme \in {"http", "https"}
        THEN [g EXCEPT !.open_url = Some(target)]
        ELSE IF UrlParse(g.url) = None
             THEN [g EXCEPT !.alive = FALSE]
             ELSE change_site(g, relative_url(g.url, target), FALSE)

\* update, lines 186-222: a click on a link of the displayed content
link_clicked(g, target) ==
    LET parsed_url == UrlParse(target)
    IN  IF IsSome(parsed_url)
        THEN IF Unwrap(parsed_url).scheme \in {"http", "https"}
             THEN [g EXCEPT !.open_url = Some(target)]
             ELSE IF Unwrap(parsed_url).scheme = "gemini"
                  THEN change_site(g, target, FALSE)
                  ELSE g
        ELSE IF UrlParse(g.url) = None
             THEN [g EXCEPT !.alive = FALSE]    \* unwrap() panics in update
             ELSE change_site(g, relative_url(g.url, target), FALSE)

\* the back button going to the entry it has just popped
back_clicked_popped(g) ==
    LET g1 == [g EXCEPT !.sites = Front(@)]
    IN  IF g1.sites # <<>> THEN change_site(g1, Last(g.sites), TRUE) ELSE g1

\* update, lines 142-149: the back button, shown when sites.len() > 1
back_clicked(g) ==
    LET g1 == [g EXCEPT !.sites = Front(@)]
    IN  IF g1.sites # <<>> THEN change_site(g1, Last(g1.sites), TRUE) ELSE g1

\* update, lines 153-155: the go button
go_clicked(g) == change_site(g, g.url, FALSE)

\* update, line 151: the address bar edits url in place
text_edited(g, text) == [g EXCEPT !.url = text]

(***************************************************************************)
(* One frame of update: the poll, then at most one input event.            *)
(***************************************************************************)
TypedTexts == {DocPage, Garbage}

WithinBounds(g) ==
    /\ Len(g.threads) <= MaxFetches
    /\ Len(g.url.path.segs) <= MaxPathLen

Commit(g) ==
    /\ WithinBounds(g)
    /\ url' = g.url
    /\ sites' = g.sites
    /\ content' = g.content
    /\ error' = g.error
    /\ loading' = g.loading
    /\ chan' = g.rx
    /\ threads' = g.threads
    /\ polled' = g.polled
    /\ open_url' = g.open_url
    /\ alive' = g.alive

\* a frame without input
Tick ==
    /\ alive
    /\ \E g \in {poll(Self)} : Commit(g)

\* the back button shown whenever the history is not empty
BackWhenNotEmpty ==
    /\ alive
    /\ Len(sites) > 0
    /\ \E g \in {back_clicked(poll(Self))} : Commit(g)

Back ==
    /\ alive
    /\ Len(sites) > 1
    /\ \E g \in {back_clicked(poll(Self))} : Commit(g)

Edit(text) ==
    /\ alive
    /\ \E g \in {text_edited(poll(Self), text)} : Commit(g)

Go ==
    /\ alive
    /\ \E g \in {go_clicked(poll(Self))} : Commit(g)

Click(i) ==
    /\ alive
    /\ \E g \in {poll(Self)} :
        /\ IsSome(g.content)
        /\ i \in DOMAIN Unwrap(g.content)
        /\ Unwrap(g.content)[i].node = "Link"
        /\ \E g1 \in {link_clicked(g, Unwrap(Unwrap(g.content)[i].url))} : Commit(g1)

(***************************************************************************)
(* The spawned threads: make_request, then tx.send of its result.          *)
(***************************************************************************)
Redirects(t) == Len(SelectSeq(t.responses, LAMBDA r : r.ok /\ r.status = "Redirect"))

\* make_request, lines 283-290: decode and parse the payload
decode_and_parse(data) ==
    LET text == from_utf8(data)
    IN  IF text = None THEN Err("Text Formatting Error") ELSE Ok(parse_gemtext(Unwrap(text)))

\* make_request with the redirect target dropped: the next turn asks the same url
make_request_same_url(t, response) ==
    LET t1 == [t EXCEPT !.requests = Append(@, Unwrap(t.url)),
                        !.responses = Append(@, response)]
    IN  IF ~response.ok
        THEN [t1 EXCEPT !.ret = Some(Err("Request Error")), !.pc = "send"]
        ELSE IF response.status = "Redirect"
        THEN IF UrlTryFrom(response.meta) = None THEN Ended("panicked") ELSE t1
        ELSE IF response.status = "Success"
        THEN [t1 EXCEPT !.ret = Some(decode_and_parse(response.data)), !.pc = "send"]
        ELSE [t1 EXCEPT !.ret = Some(Err("Error: unknown status code")), !.pc = "send"]

\* make_request with a retry: an unknown status asks the same url again
make_request_retry(t, response) ==
    LET t1 == [t EXCEPT !.requests = Append(@, Unwrap(t.url)),
                        !.responses = Append(@, response)]
    IN  IF ~response.ok
        THEN [t1 EXCEPT !.ret = Some(Err("Request Error")), !.pc = "send"]
        ELSE IF response.status = "Redirect"
        THEN LET next == UrlTryFrom(response.meta)
             IN  IF next = None THEN Ended("panicked") ELSE [t1 EXCEPT !.url = next]
        ELSE IF response.status = "Success"
        THEN [t1 EXCEPT !.ret = Some(decode_and_parse(response.data)), !.pc = "send"]
        ELSE t1

\* make_request, lines 270-290: one turn of the loop, that is one request to the
\* transport and what the thread does with its response
make_request(t, response) ==
    LET t1 == [t EXCEPT !.requests = Append(@, Unwrap(t.url)),
                        !.responses = Append(@, response)]
    IN  IF ~response.ok
        THEN [t1 EXCEPT !.ret = Some(Err("Request Error")), !.pc = "send"]
        ELSE IF response.status = "Redirect"
        THEN LET next == UrlTryFrom(response.meta)
             IN  IF next = None
                 THEN Ended("panicked")    \* unwrap() panics in the thread
                 ELSE [t1 EXCEPT !.url = next]
        ELSE IF response.status = "Success"
        THEN [t1 EXCEPT !.ret = Some(decode_and_parse(response.data)), !.pc = "send"]
        ELSE [t1 EXCEPT !.ret = Some(Err("Error: unknown status code")), !.pc = "send"]

\* change_site, line 99: tx.send(..) queues what make_request returned
send(q, f, t) == Append(q, [from |-> f, val |-> Unwrap(t.ret)])

\* make_request called by update itself: its panic is the panic of the caller
RequestOnCaller(f, response) ==
    /\ alive
    /\ f \in DOMAIN threads
    /\ threads[f].pc = "request"
    /\ response.status = "Redirect" => Redirects(threads[f]) < MaxRedirects
    /\ threads' = [threads EXCEPT ![f] = make_request(@, response)]
    /\ alive' = (make_request(threads[f], response).pc # "panicked")
    /\ UNCHANGED <<url, sites, content, error, loading, chan, polled, open_url>>

Request(f, response) ==
    /\ alive
    /\ f \in DOMAIN threads
    /\ threads[f].pc = "request"
    /\ response.status = "Redirect" => Redirects(threads[f]) < MaxRedirects
    /\ threads' = [threads EXCEPT ![f] = make_request(@, response)]
    /\ UNCHANGED <<url, sites, content, error, loading, chan, polled, open_url, alive>>

Send(f) ==
    /\ alive
    /\ f \in DOMAIN threads
    /\ threads[f].pc = "send"
    /\ chan' = send(chan, f, threads[f])
    /\ threads' = [threads EXCEPT ![f] = Ended("done")]
    /\ UNCHANGED <<url, sites, content, error, loading, polled, open_url, alive>>

(***************************************************************************)
(* The session: every input of update, every thread, and a transport that  *)
(* answers with a transport error, a redirect to text that is no address,  *)
(* or a document with a relative link (SpecLinks has the other links,      *)
(* SpecFetch the other responses).                                         *)
(***************************************************************************)
Answers ==
    {Response(FALSE, "", NoMeta, NoData),
     Response(TRUE, "Redirect", Garbage, NoData),
     Response(TRUE, "Success", NoMeta, HomeDoc)}

Next ==
    \/ Tick
    \/ Back
    \/ \E text \in TypedTexts : Edit(text)
    \/ Go
    \/ \E i \in 1..Len(HomeDoc.lines) : Click(i)
    \/ \E f \in 1..MaxFetches, response \in Answers : Request(f, response)
    \/ \E f \in 1..MaxFetches : Send(f)

Spec == Init /\ [][Next]_vars

(***************************************************************************)
(* One fetch: a single navigation from the address bar, and a transport    *)
(* that answers with any response.                                         *)
(***************************************************************************)
FetchNext ==
    \/ threads = <<>> /\ \E text \in TypedTexts : Edit(text)
    \/ threads = <<>> /\ Go
    \/ \E response \in Responses : Request(1, response)
    \/ Send(1)
    \/ Tick

SpecFetch == Init /\ [][FetchNext]_vars

(***************************************************************************)
(* Following links: pages full of links, reached from the address bar, and *)
(* a transport that serves them.                                           *)
(***************************************************************************)
LinkContexts == {DocPage, DirPage}

LinksNext ==
    \/ Tick
    \/ \E text \in LinkContexts : Edit(text)
    \/ Go
    \/ \E i \in 1..Len(LinksDoc.lines) : Click(i)
    \/ \E f \in 1..MaxFetches : Request(f, Response(TRUE, "Success", NoMeta, LinksDoc))
    \/ \E f \in 1..MaxFetches : Send(f)

SpecLinks == Init /\ [][LinksNext]_vars

(***************************************************************************)
(* Properties of one fetch (SpecFetch).                                    *)
(***************************************************************************)
IsRedirect(r) == r.ok /\ r.status = "Redirect"
IsSuccess(r) == r.ok /\ r.status = "Success"
IsFailure(r) == ~r.ok \/ r.status \notin {"Redirect", "Success"}

\* the transport answered with redirects only, and then with one success
RedirectsThenSuccess(t) ==
    /\ t.responses # <<>>
    /\ IsSuccess(Last(t.responses))
    /\ \A i \in 1..(Len(t.responses) - 1) : IsRedirect(t.responses[i])

\* N redirects and a success took N+1 requests, the first to the address of the
\* navigation and each later one to the target the response before it named
RequestsFollowRedirects(t) ==
    /\ Len(t.requests) = Redirects(t) + 1
    /\ Len(t.requests) = Len(t.responses)
    /\ Some(t.requests[1]) = UrlTryFrom(Last(sites))
    /\ \A i \in 2..Len(t.requests) : Some(t.requests[i]) = UrlTryFrom(t.responses[i - 1].meta)

\* C1, as claimed: after N redirects and one success make_request has issued N+1
\* requests, each redirect request to the target of the response before it, and
\* returns Success with the parse of the final payload.
C1_SuccessAfterRedirects ==
    \A f \in DOMAIN threads :
        (threads[f].pc = "send" /\ RedirectsThenSuccess(threads[f]))
            => /\ RequestsFollowRedirects(threads[f])
               /\ threads[f].ret = Some(Ok(parse_gemtext(Last(threads[f].responses).data.lines)))

\* C1, amended: the same requests are issued, and make_request returns Success
\* with the parse of the final payload when that payload is valid UTF-8, and
\* Failure with a text formatting error when it is not.
C1_SuccessAfterRedirectsUtf8 ==
    \A f \in DOMAIN threads :
        (threads[f].pc = "send" /\ RedirectsThenSuccess(threads[f]))
            => /\ RequestsFollowRedirects(threads[f])
               /\ threads[f].ret =
                    Some(IF Last(threads[f].responses).data.utf8
                         THEN Ok(parse_gemtext(Last(threads[f].responses).data.lines))
                         ELSE Err("Text Formatting Error"))

\* a fetch that followed two redirects returns a parsed document with links
C1_Witness ==
    \E f \in DOMAIN threads :
        /\ threads[f].pc = "send"
        /\ Redirects(threads[f]) >= 2
        /\ RedirectsThenSuccess(threads[f])
        /\ Unwrap(threads[f].ret).ok
        /\ Len(Unwrap(threads[f].ret).nodes) > 1

\* a failing response is the last one of its fetch, and the fetch returns Failure
\* having issued one request per response
C2_FailureIsFinal ==
    \A f \in DOMAIN threads :
        \A i \in DOMAIN threads[f].responses :
            IsFailure(threads[f].responses[i])
                => /\ i = Len(threads[f].responses)
                   /\ threads[f].pc = "send"
                   /\ ~Unwrap(threads[f].ret).ok
                   /\ Len(threads[f].requests) = Len(threads[f].responses)

\* a step of a fetch that has returned issues no request
C2_NoRequestAfterReturn ==
    \A f \in DOMAIN threads :
        threads[f].pc \in {"send", "done"}
            => /\ threads'[f].pc \in {"send", "done"}
               /\ Len(threads'[f].requests) <= Len(threads[f].requests)

\* C2: a fetch stops at the first transport error or status that is neither
\* Redirect nor Success: make_request returns Failure for it and issues no
\* request after it, however many redirects came before.
C2_FailureStopsFetch == []C2_FailureIsFinal /\ [][C2_NoRequestAfterReturn]_vars

\* a fetch that followed a redirect and then met an unknown status
C2_Witness ==
    \E f \in DOMAIN threads :
        /\ threads[f].pc = "send"
        /\ Redirects(threads[f]) >= 1
        /\ Last(threads[f].responses).ok
        /\ Last(threads[f].responses).status = "Other"
        /\ threads[f].ret = Some(Err("Error: unknown status code"))

(***************************************************************************)
(* Properties of the session (Spec).                                       *)
(***************************************************************************)
Queued == {chan[i].from : i \in DOMAIN chan}
Polled == {polled[i] : i \in DOMAIN polled}

\* C3: get_content delivers the outcome of a fetch only after its thread has
\* completed, and at most once; the outcomes delivered never outnumber the
\* fetches started.
C3_PolledOnceAfterCompletion ==
    /\ \A i \in DOMAIN polled : polled[i] \in DOMAIN threads /\ threads[polled[i]].pc = "done"
    /\ \A i, j \in DOMAIN polled : polled[i] = polled[j] => i = j
    /\ Len(polled) <= Len(threads)

\* two overlapping fetches, both delivered, the later one first
C3_Witness ==
    /\ Len(polled) = 2
    /\ polled[1] > polled[2]
    /\ \E f \in DOMAIN threads : threads[f].pc = "request"

\* C4, the part a finite run decides: a fetch whose thread has ended has an
\* outcome, queued for the caller or already polled by it.
C4_EndedFetchHasOutcome ==
    \A f \in DOMAIN threads :
        threads[f].pc \notin {"request", "send"} => f \in Queued \cup Polled

\* a step of back pops the last entry and fetches the one before it; a step that
\* grows the history is no step of back and appends the address it goes to
C5_BackStep ==
    /\ Back => /\ sites' = Front(sites)
               /\ url' = sites[Len(sites) - 1]
               /\ Len(threads') = Len(threads) + 1
               /\ Last(threads').url = UrlTryFrom(sites[Len(sites) - 1])
               /\ Len(sites') < Len(sites)
    /\ Len(sites') > Len(sites) => sites' = Append(sites, url') /\ ~Back

\* C5: back makes the entry before the last one the current address and the
\* target of the new fetch, and leaves the history as it was before the last
\* push: a navigation that is not back appends its address, back only removes
\* the last entry and does not append.
C5_BackRestoresPrevious == [][C5_BackStep]_vars

\* the session went to the starting page, then to another page, then back: the
\* starting page is current, alone in the history, and fetched again
C5_Witness ==
    /\ Len(threads) = 3
    /\ sites = <<DEFAULT_STARTING_PAGE>>
    /\ url = DEFAULT_STARTING_PAGE
    /\ threads[2].url = UrlTryFrom(DocPage)
    /\ threads[3].url = UrlTryFrom(DEFAULT_STARTING_PAGE)

\* a step of update that calls change_site
NavigationStep == Go \/ Back \/ (\E i \in 1..Len(HomeDoc.lines) : Click(i) /\ alive' /\ open_url' = None)

\* C6, as claimed: after any navigation, whether its address resolves or not,
\* the last entry of the history is the current address.
C6_LastEntryIsCurrent ==
    [][NavigationStep => (sites' # <<>> => Last(sites') = url')]_vars

\* C6, amended: after a navigation whose address resolves (back or not) the
\* last entry of the history is the current address, and a poll changes
\* neither.
C6_LastEntryIsCurrentWhenResolved ==
    [][/\ Len(threads') > Len(threads) => (sites' # <<>> /\ Last(sites') = url')
       /\ Tick => (sites' = sites /\ url' = url)]_vars

\* after a back navigation another fetch is under way
C6_Witness ==
    /\ Len(threads) = 3
    /\ Len(sites) = 1
    /\ Last(sites) = url
    /\ loading

\* a step of the go button on an address that does not resolve
C7_FailedResolutionStep ==
    (Go /\ UrlTryFrom(url) = None)
        => /\ error' = Some("Incorrectly formatted url")
           /\ threads' = threads
           /\ sites' = sites
           /\ loading' => loading
           /\ content' = None

\* C7: a navigation whose address does not resolve sets an error message,
\* spawns no thread and issues no request, leaves the history as it was and
\* does not set the in-flight flag.
C7_FailedResolutionAborts == [][C7_FailedResolutionStep]_vars

\* an address that does not resolve was refused while the history held a page
C7_Witness ==
    /\ error = Some("Incorrectly formatted url")
    /\ UrlTryFrom(url) = None
    /\ sites # <<>>
    /\ ~loading

\* the path the claim gives a relative target against a context
IsDocument(p) == PathExtension(p) = Some("gmi")
ExpectedPath(c, r) ==
    LET base == IF IsDocument(c) THEN PathPop(c) ELSE c
    IN  MkPath(TRUE, base.segs \o r.segs, r.dir)

\* the link of the displayed content that a click in this frame follows
Target(i) == Unwrap(Unwrap(poll(Self).content)[i].url)
IsRelative(text) == UrlParse(text) = None /\ ~PathIsAbsolute(text.path)

\* C8: a relative target is resolved against the directory of the current
\* address: the terminal segment of the current path is dropped when it is a
\* document, and kept when it is a directory, whatever the target.
C8_RelativeAgainstDirectory ==
    [][\A i \in 1..Len(LinksDoc.lines) :
          (Click(i) /\ IsRelative(Target(i)) /\ IsSome(UrlParse(url)))
              => url'.path = ExpectedPath(url.path, Target(i).path)]_vars

\* C9: a relative target followed while the current address is no valid
\* context is reported as an error: no fetch starts and update keeps running.
C9_NoContextIsReported ==
    [][\A i \in 1..Len(HomeDoc.lines) :
          (Click(i) /\ UrlParse(Target(i)) = None /\ UrlParse(url) = None)
              => /\ alive'
                 /\ IsSome(error')
                 /\ threads' = threads]_vars

\* a step in which a thread panics
PanicStep(f) == threads[f].pc # "panicked" /\ threads'[f].pc = "panicked"

\* the panic of a thread leaves the session and the other threads as they were
C10_PanicStep ==
    \A f \in DOMAIN threads :
        PanicStep(f)
            => /\ alive'
               /\ UNCHANGED <<url, sites, content, error, loading, chan, polled>>
               /\ \A h \in DOMAIN threads : h # f => threads'[h] = threads[h]

\* what another thread has sent stays queued until it is polled
C10_OutcomesKept ==
    \A f \in DOMAIN threads : threads[f].pc = "done" => f \in Queued \cup Polled

\* C10: the panic of a thread changes nothing of the session and nothing of the
\* other fetches: update keeps running, and every outcome sent by another thread
\* is queued until it is polled.
C10_PanicIsContained == []C10_OutcomesKept /\ [][C10_PanicStep]_vars

\* after a thread panicked, a later navigation started and its outcome was polled
C10_Witness ==
    /\ alive
    /\ \E f, h \in DOMAIN threads :
        /\ f < h
        /\ threads[f].pc = "panicked"
        /\ h \in Polled
        /\ IsSome(content)

(***************************************************************************)
(* Properties of the link dispatch (SpecLinks).                            *)
(***************************************************************************)
\* line i of the content c that this frame displays is a link, and its target
ShowsLink(c, i) == IsSome(c) /\ i \in DOMAIN Unwrap(c) /\ Unwrap(c)[i].node = "Link"
TargetIn(c, i) == Unwrap(Unwrap(c)[i].url)

\* a target that is a scheme-qualified address of the native scheme
IsNative(text) == IsSome(UrlParse(text)) /\ Unwrap(UrlParse(text)).scheme = "gemini"

\* C11: following a link whose target is a scheme-qualified address of the native
\* scheme navigates to exactly that target, whatever the current address is:
\* the target becomes the current address, is pushed on the history and is the
\* address of the fetch that starts.
C11_QualifiedTargetUsedDirectly ==
    [][\A c \in {poll(Self).content} : \A i \in 1..Len(LinksDoc.lines) :
          (ShowsLink(c, i) /\ IsNative(TargetIn(c, i)) /\ Click(i))
              => /\ url' = TargetIn(c, i)
                 /\ sites' = Append(sites, TargetIn(c, i))
                 /\ Len(threads') = Len(threads) + 1
                 /\ Last(threads').url = UrlTryFrom(TargetIn(c, i))]_vars

\* the qualified link was followed from the starting page, a page of another
\* host, and again from the page it leads to
C11_Witness ==
    /\ url = NewPage
    /\ Len(sites) = 3
    /\ sites[1] = DEFAULT_STARTING_PAGE
    /\ sites[2] = NewPage
    /\ sites[3] = NewPage
    /\ Last(threads).url = UrlTryFrom(NewPage)

\* a target that is no scheme-qualified address and is a rooted path
IsRooted(text) == UrlParse(text) = None /\ PathIsAbsolute(text.path)

\* C12: a rooted target that is not scheme-qualified goes to the address with the
\* scheme and the host of the current address and exactly the target as its
\* path, whether the current path names a document or a directory; that address
\* is pushed on the history and fetched.
C12_RootedTargetReplacesPath ==
    [][\A c \in {poll(Self).content} : \A i \in 1..Len(LinksDoc.lines) :
          (ShowsLink(c, i) /\ IsRooted(TargetIn(c, i)) /\ IsSome(UrlParse(url)) /\ Click(i))
              => /\ url' = Txt(url.scheme, url.host, TargetIn(c, i).path)
                 /\ sites' = Append(sites, url')
                 /\ Len(threads') = Len(threads) + 1
                 /\ Last(threads').url = UrlTryFrom(url')]_vars

\* the rooted link was followed from a document under a directory
C12_Witness ==
    /\ Len(sites) >= 2
    /\ sites[Len(sites) - 1] = DocPage
    /\ Last(sites) = Txt("gemini", "example.org", AbsDoc.path)
    /\ url = Last(sites)
    /\ Last(threads).url = UrlTryFrom(url)

(***************************************************************************)
(* Properties of overlapping navigations (Spec).                           *)
(***************************************************************************)
\* the next outcome in the queue comes from a fetch that a later navigation has
\* superseded
StaleAtHead == chan # <<>> /\ Head(chan).from < Len(threads)

\* a frame that polls a stale outcome writes it into the display state
C13_StalePollStep ==
    (Tick /\ StaleAtHead)
        => /\ polled' = Append(polled, Head(chan).from)
           /\ chan' = Tail(chan)
           /\ loading' = FALSE
           /\ url' = url
           /\ Head(chan).val.ok => content' = Some(Head(chan).val.nodes)
           /\ ~Head(chan).val.ok => error' = Some(Head(chan).val.err)

\* C13: the outcome of a fetch polled after a later navigation has started is
\* accepted and written into the display state: what is displayed follows the
\* order of the polls, not the order in which the navigations started.
C13_StaleOutcomeAccepted == [][C13_StalePollStep]_vars

\* the content of the first navigation is displayed while the current address is
\* the one of the second, whose fetch is still running
C13_Witness ==
    /\ Len(threads) = 2
    /\ polled = <<1>>
    /\ IsSome(content)
    /\ sites = <<DEFAULT_STARTING_PAGE, DocPage>>
    /\ url = DocPage
    /\ threads[2].pc = "request"
    /\ ~loading

\* C14: the display state is content, error or neither: content and error are
\* never both set, under any interleaving of navigations, thread completions
\* and polls.
C14_ContentOrErrorNotBoth == ~(IsSome(content) /\ IsSome(error))

\* C15, for a session that has started one fetch (the displayed document is
\* then the one fetched from the only entry of the history): a target that is
\* not scheme-qualified is resolved against the address the displayed document
\* was fetched from, also after the address bar was edited or refused.
C15_ContextIsFetchedAddress ==
    [][\A i \in 1..Len(HomeDoc.lines) :
          (Click(i) /\ UrlParse(Target(i)) = None /\ Len(threads) = 1)
              => /\ alive'
                 /\ url' = relative_url(sites[1], Target(i))]_vars

\* at most one outcome is ever sent over a channel: the session has the one
\* channel made in Gbrowse::new
C16_OneOutcomePerChannel == Len(chan) + Len(polled) <= 1

\* what a frame receives comes from the most recently started fetch, and a
\* navigation that starts a fetch leaves the session with an empty endpoint
C16_CurrentEndpointStep ==
    /\ polled' # polled => Last(polled') = Len(threads)
    /\ Len(threads') > Len(threads) => chan' = <<>>

\* C16: every navigation delivers over a fresh one-shot channel: the receiving
\* endpoint is replaced by each navigation that starts a fetch, no channel
\* carries more than one outcome, and the outcome of a superseded fetch is not
\* received through the current endpoint.
C16_FreshChannelPerNavigation ==
    []C16_OneOutcomePerChannel /\ [][C16_CurrentEndpointStep]_vars

(***************************************************************************)
(* Properties of the history (Spec).                                       *)
(***************************************************************************)
\* a step of update that follows a link of the displayed content
FollowStep == \E i \in 1..Len(HomeDoc.lines) : Click(i)

\* the history changes by a push or by a pop, and by nothing else
C17_HistoryStep ==
    /\ \/ sites' = sites
       \/ /\ sites' = Append(sites, url')
          /\ Go \/ FollowStep
          /\ IsSome(UrlTryFrom(url'))
          /\ Len(threads') = Len(threads) + 1
       \/ /\ sites' = Front(sites)
          /\ Back
    /\ threads' = threads => sites' = sites
    /\ Go => sites' = IF IsSome(UrlTryFrom(url)) THEN Append(sites, url) ELSE sites
    /\ Back => sites' = Front(sites)

\* C17: the history changes in two ways only: a navigation that is not back and
\* whose address resolves appends that address at the end, also when it equals
\* the last entry, and back removes the last entry. A poll, a step of a
\* thread, a refused navigation and the change_site of back leave the other
\* entries as they are and in their order.
C17_HistoryPushPopOnly == [][C17_HistoryStep]_vars

\* the same address was pushed twice in a row, the second time while the first
\* fetch was delivered and displayed
C17_Witness ==
    /\ Len(sites) = 2
    /\ sites[1] = sites[2]
    /\ Len(threads) = 2
    /\ polled = <<1>>
    /\ threads[2].pc = "request"

(***************************************************************************)
(* Properties of the in-flight flag (Spec).                                *)
(***************************************************************************)
\* C18: whenever the in-flight flag is false every fetch that change_site
\* started has had its outcome polled: the flag stays true while a started
\* fetch is still pending.
C18_NotLoadingMeansAllPolled ==
    ~loading => \A f \in DOMAIN threads : f \in Polled

(***************************************************************************)
(* Properties of the back button (Spec).                                   *)
(***************************************************************************)
\* back is taken with two entries or more and removes one; no step removes more
\* than one entry or the only entry
C19_BackKeepsAnEntry ==
    /\ Back => (Len(sites) >= 2 /\ Len(sites') = Len(sites) - 1)
    /\ Len(sites') < Len(sites) => (Len(sites) >= 2 /\ Len(sites') = Len(sites) - 1)
    /\ sites # <<>> => sites' # <<>>

\* once a navigation has resolved and started its fetch the history holds an entry
C19_HistoryNotEmpty == threads # <<>> => sites # <<>>

\* C19: back is enabled only with two entries or more in the history and removes
\* exactly one, so it never empties the history: once a navigation has
\* resolved, the history is non-empty in every later state.
C19_BackNeverEmptiesHistory == []C19_HistoryNotEmpty /\ [][C19_BackKeepsAnEntry]_vars

\* back left a single entry, and the page fetched again for it is displayed
C19_Witness ==
    /\ Len(sites) = 1
    /\ Len(threads) = 3
    /\ IsSome(content)
    /\ Last(polled) = 3
    /\ url = sites[1]

=============================================================================
